---- MODULE Spec2Model ----
(***************************************************************************)
(* Model of the MTA arrivals service: the feed fetcher and decoder         *)
(* (mta_parser.py, MTAFeedParser), the arrival aggregator                  *)
(* (MTAArrivalsService._process_arrivals), the station directory           *)
(* (station_lookup.py) and the HTTP handler for a station's arrivals       *)
(* (api.py).                                                               *)
(*                                                                         *)
(* Python values: an Optional is None (the empty tuple) or Some(x) (the    *)
(* one-element tuple); a str that the code strips or tests for truth is a  *)
(* tuple of one-character strings; a dict with fixed keys is a record; a   *)
(* list is a sequence.                                                     *)
(***************************************************************************)
EXTENDS Integers, Sequences, FiniteSets, TLC

None == <<>>
Some(x) == <<x>>

(***************************************************************************)
(* Bounds of the model and the universe of upstream messages.              *)
(***************************************************************************)
\* int(time.time()) at the moment _process_arrivals runs
Now == 1000
\* minutes_ahead ranges over 0..MaxMinutesAhead
MaxMinutesAhead == 2
\* max_trains_per_route ranges over -MaxNegCap..MaxCap
MaxCap == 2
MaxNegCap == 1
\* rows of the stops file
MaxRows == 2

FeedUrls == <<"gtfs-ace", "gtfs-bdfm", "gtfs-g">>
Routes == {"R", "Q"}
StopA == <<"A">>
StopB == <<"B">>
Stops == {StopA, StopB}
ArrivalTimes == {1000, 1060, 1061}
Delays == {30}

\* The endpoints answer with envelopes of at most one entity, whose trip update
\* has at most one stop-time update: three endpoints give up to three arrivals,
\* at one or two stations and on one or two routes.
\* Every trip of the model carries the id of the feed that serves it.
TripIdOf(url) == url

\* gtfs_realtime_pb2 StopTimeEvent: optional time, optional delay
StopTimeEventMsgs ==
    [time : {Some(t) : t \in ArrivalTimes}, delay : {None} \cup {Some(d) : d \in Delays}]

\* gtfs_realtime_pb2 StopTimeUpdate
StopTimeUpdateMsgs ==
    [stop_id : Stops,
     arrival : {None} \cup {Some(a) : a \in StopTimeEventMsgs},
     departure : {None},
     stop_sequence : {None}]

\* gtfs_realtime_pb2 TripUpdate, as served by the feed at url
TripUpdateMsgs(url) ==
    [trip_id : {TripIdOf(url)},
     route_id : Routes,
     direction_id : {None},
     stop_time_update : {<<>>} \cup {<<u>> : u \in StopTimeUpdateMsgs}]

\* gtfs_realtime_pb2 FeedEntity: with or without a trip_update
EntityMsgs(url) ==
    {[trip_update |-> None]} \cup {[trip_update |-> Some(t)] : t \in TripUpdateMsgs(url)}

\* gtfs_realtime_pb2 FeedMessage: the entities of one envelope
FeedMsgs(url) == {<<>>} \cup {<<e>> : e \in EntityMsgs(url)}

FailureKinds == {"network_error", "bad_status", "decode_error"}

\* raw csv fields: strings as tuples of characters
RawStopIds == {<<"A">>, <<" ", "A">>, <<"B">>}
RawStopNames == {<<" ">>, <<"X">>, <<"X", " ">>, <<"Y">>}

\* what the csv reader yields for one line: a row with both columns, a short
\* row (DictReader fills the missing stop_name with None), or a read error
CsvRows ==
    [kind : {"row"}, stop_id : {Some(i) : i \in RawStopIds},
     stop_name : {Some(n) : n \in RawStopNames} \cup {None}]
    \cup {[kind |-> "read_error", stop_id |-> None, stop_name |-> None]}

\* limit of GET /stations/{stop_id}/arrivals: default 3
DefaultLimit == 3
Limits == {0, 1, DefaultLimit}
\* minutes_ahead=60 of the handler, max_trains_per_route=5 of the service
HandlerMinutesAhead == 60
DefaultMaxTrainsPerRoute == 5

\* what the endpoints may answer while the handler runs
HandlerTrip(url, route, time) ==
    [trip_id |-> TripIdOf(url), route_id |-> route, direction_id |-> None,
     stop_time_update |->
        <<[stop_id |-> StopA, arrival |-> Some([time |-> Some(time), delay |-> None]),
           departure |-> None, stop_sequence |-> None]>>]

HandlerOutcomes(url) ==
    {[kind |-> "network_error", feed |-> <<>>],
     [kind |-> "ok", feed |-> <<[trip_update |-> Some(HandlerTrip(url, "R", 1061))]>>],
     [kind |-> "ok", feed |-> <<[trip_update |-> Some(HandlerTrip(url, "Q", 1060))]>>]}

VARIABLES
    pc,                   \* position of get_next_trains_per_station
    feed_index,           \* the for loop of get_mta_feed_data (1-based)
    served,               \* what each endpoint answered, in fetch order
    all_trip_updates,     \* MTAFeedParser.get_mta_feed_data: all_trip_updates
    minutes_ahead,        \* argument of _process_arrivals
    max_trains_per_route, \* argument of _process_arrivals
    final_arrivals,       \* result of _process_arrivals
    load_pc,              \* position of StationLookup._load_stops
    rows_read,            \* rows the csv reader has yielded so far
    stop_id_to_name,      \* StationLookup._stop_id_to_name
    name_to_stop_ids,     \* StationLookup._name_to_stop_ids
    response              \* last answer of GET /stations/{stop_id}/arrivals

vars == <<pc, feed_index, served, all_trip_updates, minutes_ahead,
          max_trains_per_route, final_arrivals,
          load_pc, rows_read, stop_id_to_name, name_to_stop_ids, response>>

feedVars == <<pc, feed_index, served, all_trip_updates, minutes_ahead,
              max_trains_per_route, final_arrivals>>
dirVars == <<load_pc, rows_read, stop_id_to_name, name_to_stop_ids, response>>

(***************************************************************************)
(* Python helpers.                                                         *)
(***************************************************************************)
Min(a, b) == IF a <= b THEN a ELSE b
Max(a, b) == IF a >= b THEN a ELSE b

\* seq[:n] for a Python list
PySliceTo(seq, n) ==
    IF n >= 0 THEN SubSeq(seq, 1, Min(n, Len(seq)))
    ELSE SubSeq(seq, 1, Max(Len(seq) + n, 0))

\* dict.get(key, default)
DictGet(d, key, default) == IF key \in DOMAIN d THEN d[key] ELSE default

\* protobuf scalar read: the value, or 0 when the field is not set
FieldOrZero(opt) == IF opt = None THEN 0 ELSE opt[1]

\* sorted(arrivals, key=lambda x: x['arrival_time']): stable
RECURSIVE InsertByArrivalTime(_, _)
InsertByArrivalTime(sorted, x) ==
    IF sorted = <<>> THEN <<x>>
    ELSE IF sorted[Len(sorted)].arrival_time <= x.arrival_time THEN Append(sorted, x)
    ELSE Append(InsertByArrivalTime(SubSeq(sorted, 1, Len(sorted) - 1), x),
                sorted[Len(sorted)])

RECURSIVE SortStable(_)
SortStable(arrivals) ==
    IF arrivals = <<>> THEN <<>>
    ELSE InsertByArrivalTime(SortStable(SubSeq(arrivals, 1, Len(arrivals) - 1)),
                             arrivals[Len(arrivals)])

SortedKeepsOrder(arrivals) == arrivals

SortByArrivalTime(arrivals) == SortStable(arrivals)

(***************************************************************************)
(* Feed decoder: MTAFeedParser._parse_trip_update, _fetch_single_feed.     *)
(***************************************************************************)
ArrivalDelayUnsetIsNone(m) ==
    IF m.arrival # None THEN m.arrival[1].delay ELSE None

\* 'delay': stop_update.arrival.delay if stop_update.HasField('arrival') else None
ArrivalDelay(m) ==
    IF m.arrival # None THEN Some(FieldOrZero(m.arrival[1].delay)) ELSE None

ParseStopTimeUpdate(m) ==
    [stop_id |-> m.stop_id,
     arrival_time |-> IF m.arrival # None THEN Some(FieldOrZero(m.arrival[1].time)) ELSE None,
     departure_time |-> IF m.departure # None THEN Some(FieldOrZero(m.departure[1].time)) ELSE None,
     delay |-> ArrivalDelay(m),
     stop_sequence |-> m.stop_sequence]

ParseTripUpdate(t) ==
    [trip_id |-> t.trip_id,
     route_id |-> t.route_id,
     direction_id |-> t.direction_id,
     stop_updates |-> [i \in 1..Len(t.stop_time_update) |->
                          ParseStopTimeUpdate(t.stop_time_update[i])]]

HasTripUpdate(entity) == entity.trip_update # None

FetchSingleFeed(feed) ==
    LET withTrip == SelectSeq(feed, HasTripUpdate)
    IN  [i \in 1..Len(withTrip) |-> ParseTripUpdate(withTrip[i].trip_update[1])]

CatchesNetworkOnly(kind) == kind = "network_error"

\* except Exception as e: every failure of _fetch_single_feed is an Exception
Catches(kind) == kind \in FailureKinds

(***************************************************************************)
(* Arrival aggregator: MTAArrivalsService._process_arrivals.               *)
(***************************************************************************)
CutoffTime(current_time, minutes) == current_time + (minutes * 60)

InWindowInclusive(arrival_time, current_time, cutoff_time) ==
    /\ arrival_time # None
    /\ arrival_time[1] # 0
    /\ current_time <= arrival_time[1]
    /\ arrival_time[1] <= cutoff_time

\* if arrival_time and current_time < arrival_time <= cutoff_time
InWindow(arrival_time, current_time, cutoff_time) ==
    /\ arrival_time # None
    /\ arrival_time[1] # 0
    /\ current_time < arrival_time[1]
    /\ arrival_time[1] <= cutoff_time

ArrivalData(trip, stop_update, current_time) ==
    [route |-> trip.route_id,
     arrival_time |-> stop_update.arrival_time[1],
     minutes_away |-> (stop_update.arrival_time[1] - current_time) \div 60,
     trip_id |-> trip.trip_id,
     direction_id |-> trip.direction_id,
     delay |-> DictGet(stop_update, "delay", Some(0))]

\* the appends of one trip, in order: <<stop_id, arrival_data>>
RECURSIVE TripAppends(_, _, _, _)
TripAppends(trip, k, current_time, cutoff_time) ==
    IF k = 0 THEN <<>>
    ELSE LET su == trip.stop_updates[k]
             before == TripAppends(trip, k - 1, current_time, cutoff_time)
         IN  IF InWindow(DictGet(su, "arrival_time", None), current_time, cutoff_time)
             THEN Append(before, [stop_id |-> su.stop_id,
                                  data |-> ArrivalData(trip, su, current_time)])
             ELSE before

\* the appends of the whole double loop, in order
RECURSIVE AllAppends(_, _, _)
AllAppends(trip_updates, current_time, cutoff_time) ==
    IF trip_updates = <<>> THEN <<>>
    ELSE AllAppends(SubSeq(trip_updates, 1, Len(trip_updates) - 1), current_time, cutoff_time)
         \o TripAppends(trip_updates[Len(trip_updates)],
                        Len(trip_updates[Len(trip_updates)].stop_updates),
                        current_time, cutoff_time)

\* station_route_arrivals[station_id][route_id]
RECURSIVE RouteList(_, _, _)
RouteList(appends, station_id, route_id) ==
    IF appends = <<>> THEN <<>>
    ELSE LET last == appends[Len(appends)]
             before == RouteList(SubSeq(appends, 1, Len(appends) - 1), station_id, route_id)
         IN  IF last.stop_id = station_id /\ last.data.route = route_id
             THEN Append(before, last.data)
             ELSE before

\* the keys of station_route_arrivals[station_id], in insertion order
RECURSIVE RouteKeys(_, _)
RouteKeys(appends, station_id) ==
    IF appends = <<>> THEN <<>>
    ELSE LET last == appends[Len(appends)]
             before == RouteKeys(SubSeq(appends, 1, Len(appends) - 1), station_id)
         IN  IF last.stop_id = station_id
                /\ \A i \in 1..Len(before) : before[i] # last.data.route
             THEN Append(before, last.data.route)
             ELSE before

\* the keys of station_route_arrivals
StationKeys(appends) == {appends[i].stop_id : i \in 1..Len(appends)}

CapRouteOffByOne(sorted_arrivals, max) == PySliceTo(sorted_arrivals, max + 1)

\* sorted_arrivals[:max_trains_per_route]
CapRoute(sorted_arrivals, max) == PySliceTo(sorted_arrivals, max)

\* station_arrivals after the loop over routes.items()
RECURSIVE ExtendRoutes(_, _, _, _)
ExtendRoutes(appends, station_id, route_keys, max) ==
    IF route_keys = <<>> THEN <<>>
    ELSE ExtendRoutes(appends, station_id, SubSeq(route_keys, 1, Len(route_keys) - 1), max)
         \o CapRoute(SortByArrivalTime(RouteList(appends, station_id,
                                                 route_keys[Len(route_keys)])), max)

\* a single global sort and cap, instead of a cap per route
StationArrivalsGlobalCap(appends, station_id, max) ==
    LET keys == RouteKeys(appends, station_id)
        RECURSIVE All(_)
        All(ks) == IF ks = <<>> THEN <<>>
                   ELSE All(SubSeq(ks, 1, Len(ks) - 1))
                        \o RouteList(appends, station_id, ks[Len(ks)])
    IN  PySliceTo(SortByArrivalTime(All(keys)), max)

\* final_arrivals[station_id]
StationArrivals(appends, station_id, max) ==
    SortByArrivalTime(ExtendRoutes(appends, station_id, RouteKeys(appends, station_id), max))

ProcessArrivals(trip_updates, current_time, minutes, max) ==
    LET appends == AllAppends(trip_updates, current_time, CutoffTime(current_time, minutes))
    IN  [station_id \in StationKeys(appends) |-> StationArrivals(appends, station_id, max)]

(***************************************************************************)
(* get_next_trains_per_station: fetch every feed, then aggregate.          *)
(***************************************************************************)
Init ==
    /\ pc = "fetching"
    /\ feed_index = 1
    /\ served = <<>>
    /\ all_trip_updates = <<>>
    /\ minutes_ahead = 0
    /\ max_trains_per_route = 0
    /\ final_arrivals = <<>>
    /\ load_pc = "idle"
    /\ rows_read = <<>>
    /\ stop_id_to_name = <<>>
    /\ name_to_stop_ids = <<>>
    /\ response = None

\* one iteration of the loop of get_mta_feed_data whose fetch succeeds
FetchFeedOk ==
    /\ pc = "fetching"
    /\ feed_index <= Len(FeedUrls)
    /\ \E feed \in FeedMsgs(FeedUrls[feed_index]) :
          /\ served' = Append(served, [kind |-> "ok", feed |-> feed])
          /\ all_trip_updates' = all_trip_updates \o FetchSingleFeed(feed)
    /\ feed_index' = feed_index + 1
    /\ UNCHANGED <<pc, minutes_ahead, max_trains_per_route, final_arrivals>>
    /\ UNCHANGED dirVars

\* one iteration whose fetch raises: requests.get, raise_for_status or ParseFromString
FetchFeedError ==
    /\ pc = "fetching"
    /\ feed_index <= Len(FeedUrls)
    /\ \E kind \in FailureKinds :
          /\ served' = Append(served, [kind |-> kind, feed |-> <<>>])
          /\ IF Catches(kind)
             THEN /\ feed_index' = feed_index + 1
                  /\ pc' = pc
             ELSE /\ feed_index' = feed_index
                  /\ pc' = "raised"
    /\ UNCHANGED <<all_trip_updates, minutes_ahead, max_trains_per_route, final_arrivals>>
    /\ UNCHANGED dirVars

\* return all_trip_updates, then _process_arrivals(trip_updates, minutes_ahead, max)
Aggregate ==
    /\ pc = "fetching"
    /\ feed_index > Len(FeedUrls)
    /\ \E minutes \in 0..MaxMinutesAhead, max \in (0 - MaxNegCap)..MaxCap :
          /\ minutes_ahead' = minutes
          /\ max_trains_per_route' = max
          /\ final_arrivals' = ProcessArrivals(all_trip_updates, Now, minutes, max)
    /\ pc' = "done"
    /\ UNCHANGED <<feed_index, served, all_trip_updates>>
    /\ UNCHANGED dirVars

Next == FetchFeedOk \/ FetchFeedError \/ Aggregate

Spec == Init /\ [][Next]_vars


(***************************************************************************)
(* Station directory: StationLookup (station_lookup.py).                   *)
(***************************************************************************)
IsSpace(c) == c = " "

\* str.strip()
RECURSIVE LStrip(_)
LStrip(str) ==
    IF str # <<>> /\ IsSpace(str[1]) THEN LStrip(SubSeq(str, 2, Len(str))) ELSE str

RECURSIVE RStrip(_)
RStrip(str) ==
    IF str # <<>> /\ IsSpace(str[Len(str)]) THEN RStrip(SubSeq(str, 1, Len(str) - 1)) ELSE str

Strip(str) == LStrip(RStrip(str))

\* d[key] = value
DictSet(d, key, value) ==
    [k \in DOMAIN d \cup {key} |-> IF k = key THEN value ELSE d[k]]

\* row['stop_id'].strip() or row['stop_name'].strip() raises, or the reader does
RowRaises(row) == row.kind = "read_error" \/ row.stop_id = None \/ row.stop_name = None

\* self._stop_id_to_name[stop_id] = stop_name
StoreName(id_to_name, row) ==
    DictSet(id_to_name, Strip(row.stop_id[1]), Strip(row.stop_name[1]))

\* if stop_name not in self._name_to_stop_ids: ... = []; then append(stop_id)
StoreStopId(name_to_ids, row) ==
    LET stop_id == Strip(row.stop_id[1])
        stop_name == Strip(row.stop_name[1])
    IN  DictSet(name_to_ids, stop_name,
                Append(DictGet(name_to_ids, stop_name, <<>>), stop_id))

\* StationLookup.get_station_name: self._stop_id_to_name.get(stop_id)
GetStationName(stop_id) ==
    IF stop_id \in DOMAIN stop_id_to_name THEN Some(stop_id_to_name[stop_id]) ELSE None

\* StationLookup.get_stop_ids
GetStopIds(station_name) == DictGet(name_to_stop_ids, station_name, <<>>)

\* Python truth of an Optional[str]: None and '' are false
Truthy(opt_str) == opt_str # None /\ opt_str[1] # <<>>

\* get_mta_feed_data over the answers of the endpoints: failures are skipped
RECURSIVE GetMtaFeedData(_)
GetMtaFeedData(answers) ==
    IF answers = <<>> THEN <<>>
    ELSE GetMtaFeedData(SubSeq(answers, 1, Len(answers) - 1))
         \o (IF answers[Len(answers)].kind = "ok"
             THEN FetchSingleFeed(answers[Len(answers)].feed)
             ELSE <<>>)

\* MTAArrivalsService.get_station_arrivals
ServiceStationArrivals(answers, station_id, minutes) ==
    DictGet(ProcessArrivals(GetMtaFeedData(answers), Now, minutes, DefaultMaxTrainsPerRoute),
            station_id, <<>>)

\* api.get_station_arrivals
HandleStationArrivals(stop_id, limit, answers) ==
    LET station_name == GetStationName(stop_id)
        arrivals == ServiceStationArrivals(answers, stop_id, HandlerMinutesAhead)
    IN  IF ~Truthy(station_name)
        THEN [request |-> stop_id, status |-> 404, body |-> None]
        ELSE [request |-> stop_id, status |-> 200,
              body |-> Some([stop_id |-> stop_id,
                             station_name |-> station_name[1],
                             arrivals |-> PySliceTo(arrivals, limit),
                             total_arrivals |-> Len(arrivals)])]

DirInit ==
    /\ pc = "fetching"
    /\ feed_index = 1
    /\ served = <<>>
    /\ all_trip_updates = <<>>
    /\ minutes_ahead = 0
    /\ max_trains_per_route = 0
    /\ final_arrivals = <<>>
    /\ load_pc = "start"
    /\ rows_read = <<>>
    /\ stop_id_to_name = <<>>
    /\ name_to_stop_ids = <<>>
    /\ response = None

\* open() raises FileNotFoundError: caught, a warning is printed
OpenMissing ==
    /\ load_pc = "start"
    /\ load_pc' = "failed"
    /\ UNCHANGED <<rows_read, stop_id_to_name, name_to_stop_ids, response>>
    /\ UNCHANGED feedVars

OpenFile ==
    /\ load_pc = "start"
    /\ load_pc' = "reading"
    /\ UNCHANGED <<rows_read, stop_id_to_name, name_to_stop_ids, response>>
    /\ UNCHANGED feedVars

\* one iteration of for row in reader
ReadRow ==
    /\ load_pc = "reading"
    /\ Len(rows_read) < MaxRows
    /\ \E row \in CsvRows :
          /\ rows_read' = Append(rows_read, row)
          /\ IF RowRaises(row)
             THEN /\ load_pc' = "failed"
                  /\ UNCHANGED <<stop_id_to_name, name_to_stop_ids>>
             ELSE /\ load_pc' = load_pc
                  /\ stop_id_to_name' = StoreName(stop_id_to_name, row)
                  /\ name_to_stop_ids' = StoreStopId(name_to_stop_ids, row)
    /\ UNCHANGED response
    /\ UNCHANGED feedVars

EndOfFile ==
    /\ load_pc = "reading"
    /\ load_pc' = "loaded"
    /\ UNCHANGED <<rows_read, stop_id_to_name, name_to_stop_ids, response>>
    /\ UNCHANGED feedVars

\* GET /stations/{stop_id}/arrivals?limit=N, once the module is imported
GetStationArrivals ==
    /\ load_pc \in {"loaded", "failed"}
    /\ \E stop_id \in Stops, limit \in Limits,
          answers \in {<<a, b, c>> : a \in HandlerOutcomes(FeedUrls[1]),
                                     b \in HandlerOutcomes(FeedUrls[2]),
                                     c \in HandlerOutcomes(FeedUrls[3])} :
          response' = Some(HandleStationArrivals(stop_id, limit, answers))
    /\ UNCHANGED <<load_pc, rows_read, stop_id_to_name, name_to_stop_ids>>
    /\ UNCHANGED feedVars

DirNext == OpenMissing \/ OpenFile \/ ReadRow \/ EndOfFile \/ GetStationArrivals

DirSpec == DirInit /\ [][DirNext]_vars

(***************************************************************************)
(* Properties of the directory and the handler.                            *)
(***************************************************************************)
\* C7: the handler answers 404 exactly when the stop_id is not in the
\* directory, and otherwise with {stop_id, station_name, arrivals, total_arrivals}.
C7_NotFoundIffUnknown ==
    response # None =>
        /\ response[1].status = 404 <=> response[1].request \notin DOMAIN stop_id_to_name
        /\ response[1].status # 404 =>
              /\ response[1].status = 200
              /\ response[1].body # None
              /\ response[1].body[1].stop_id = response[1].request
              /\ response[1].body[1].station_name = stop_id_to_name[response[1].request]

\* C8: a load that ends on an error (missing file, error on a row) leaves the
\* directory empty.
C8_FailedLoadIsEmpty ==
    load_pc = "failed" =>
        /\ DOMAIN stop_id_to_name = {}
        /\ DOMAIN name_to_stop_ids = {}

\* C10: the two tables agree: a stop id listed under a name has that name, and
\* every stop id is listed under exactly one name, exactly once.
C10_TablesAgree ==
    /\ \A n \in DOMAIN name_to_stop_ids :
          \A i \in 1..Len(name_to_stop_ids[n]) :
              /\ name_to_stop_ids[n][i] \in DOMAIN stop_id_to_name
              /\ stop_id_to_name[name_to_stop_ids[n][i]] = n
    /\ \A s \in DOMAIN stop_id_to_name :
          Cardinality(UNION {{<<n, i>> : i \in {k \in 1..Len(name_to_stop_ids[n]) :
                                                    name_to_stop_ids[n][k] = s}} :
                                n \in DOMAIN name_to_stop_ids}) = 1

(***************************************************************************)
(* Properties of the fetcher and the aggregator.                           *)
(***************************************************************************)
CutoffNow == Now + minutes_ahead * 60

\* the stop updates handed to the aggregator: <<index of the trip, index in the trip>>
InputUpdates ==
    UNION {{<<t, k>> : k \in 1..Len(all_trip_updates[t].stop_updates)} :
              t \in 1..Len(all_trip_updates)}

InputTrip(u) == all_trip_updates[u[1]]
InputUpdate(u) == all_trip_updates[u[1]].stop_updates[u[2]]

\* the predictions of the output: <<station, index in the station's list>>
Predictions ==
    UNION {{<<s, i>> : i \in 1..Len(final_arrivals[s])} : s \in DOMAIN final_arrivals}

Prediction(p) == final_arrivals[p[1]][p[2]]

\* the stop updates of route r at station s that fall in the window (now, cutoff]
Qualifying(s, r) ==
    {u \in InputUpdates :
        /\ InputUpdate(u).stop_id = s
        /\ InputTrip(u).route_id = r
        /\ InputUpdate(u).arrival_time # None
        /\ Now < InputUpdate(u).arrival_time[1]
        /\ InputUpdate(u).arrival_time[1] <= CutoffNow}

\* the predictions of route r in the list of station s
OfRoute(s, r) == {p \in Predictions : p[1] = s /\ Prediction(p).route = r}

\* C1: every prediction has now < arrival_time <= now + minutes_ahead*60 and
\* comes from a stop update of its trip at its station that carries that
\* arrival_time; stop updates without arrival_time yield nothing.
C1_WindowExact ==
    pc = "done" =>
        /\ \A p \in Predictions :
              /\ Now < Prediction(p).arrival_time
              /\ Prediction(p).arrival_time <= Now + minutes_ahead * 60
              /\ \E u \in InputUpdates :
                    /\ InputUpdate(u).stop_id = p[1]
                    /\ InputTrip(u).trip_id = Prediction(p).trip_id
                    /\ InputUpdate(u).arrival_time = Some(Prediction(p).arrival_time)
        /\ Cardinality(Predictions)
              <= Cardinality({u \in InputUpdates : InputUpdate(u).arrival_time # None})

C1_Witness ==
    /\ pc = "done"
    /\ \E p \in Predictions : Prediction(p).arrival_time = CutoffNow
    /\ \E u \in InputUpdates : InputUpdate(u).arrival_time = Some(Now)
    /\ \E u \in InputUpdates : InputUpdate(u).arrival_time = None

\* C2 (as stated): for every station and route, and every max_trains_per_route,
\* at most max_trains_per_route predictions of the route are in the station's list.
C2_AtMostCap_AnyCap ==
    pc = "done" =>
        \A s \in Stops, r \in Routes : Cardinality(OfRoute(s, r)) <= max_trains_per_route

\* C2 (amended): for every station and route, and every max_trains_per_route >= 0,
\* at most max_trains_per_route predictions of the route are in the station's list.
C2_AtMostCap ==
    (pc = "done" /\ max_trains_per_route >= 0) =>
        \A s \in Stops, r \in Routes : Cardinality(OfRoute(s, r)) <= max_trains_per_route

C2_Witness ==
    /\ pc = "done"
    /\ max_trains_per_route >= 1
    /\ \E s \in Stops, r \in Routes :
          /\ Cardinality(Qualifying(s, r)) > max_trains_per_route
          /\ Cardinality(OfRoute(s, r)) = max_trains_per_route

\* C3: in every station's list arrival_time is non-decreasing, also when the
\* list merges the capped lists of several routes.
C3_StationSorted ==
    pc = "done" =>
        \A s \in DOMAIN final_arrivals :
            \A i \in 1..Len(final_arrivals[s]) - 1 :
                final_arrivals[s][i].arrival_time <= final_arrivals[s][i + 1].arrival_time

C3_Witness ==
    /\ pc = "done"
    /\ \E s \in DOMAIN final_arrivals :
          /\ \E i, j \in 1..Len(final_arrivals[s]) :
                final_arrivals[s][i].route # final_arrivals[s][j].route
          /\ LET appends == AllAppends(all_trip_updates, Now, CutoffNow)
             IN  ExtendRoutes(appends, s, RouteKeys(appends, s), max_trains_per_route)
                    # final_arrivals[s]

\* C4: no station key of the output maps to an empty list.
C4_NoEmptyStation ==
    pc = "done" => \A s \in DOMAIN final_arrivals : final_arrivals[s] # <<>>

\* the trip_update messages of the endpoints that answered, in fetch order
RECURSIVE ServedTrips(_)
ServedTrips(n) ==
    IF n = 0 THEN <<>>
    ELSE ServedTrips(n - 1)
         \o (IF served[n].kind = "ok"
             THEN LET f == served[n].feed
                      RECURSIVE Trips(_)
                      Trips(k) == IF k = 0 THEN <<>>
                                  ELSE IF f[k].trip_update # None
                                       THEN Append(Trips(k - 1), f[k].trip_update[1])
                                       ELSE Trips(k - 1)
                  IN  Trips(Len(f))
             ELSE <<>>)

\* C5: whatever endpoints fail, no exception escapes get_mta_feed_data, every
\* endpoint is fetched, and the result holds exactly the trip updates of the
\* endpoints that answered.
C5_FailureIsolated ==
    /\ pc # "raised"
    /\ Len(served) = feed_index - 1
    /\ LET msgs == ServedTrips(Len(served))
       IN  /\ Len(all_trip_updates) = Len(msgs)
           /\ \A j \in 1..Len(msgs) :
                 /\ all_trip_updates[j].trip_id = msgs[j].trip_id
                 /\ all_trip_updates[j].route_id = msgs[j].route_id
                 /\ Len(all_trip_updates[j].stop_updates) = Len(msgs[j].stop_time_update)
                 /\ \A k \in 1..Len(msgs[j].stop_time_update) :
                       all_trip_updates[j].stop_updates[k].stop_id
                          = msgs[j].stop_time_update[k].stop_id
    /\ pc = "done" => Len(served) = Len(FeedUrls)

C5_Witness ==
    /\ pc = "done"
    /\ {served[i].kind : i \in 1..Len(served)} = {"decode_error", "ok"}
    /\ served[1].kind = "decode_error"
    /\ Len(all_trip_updates) = 2

\* the stop_time_update messages served for trip trip_id
ServedStopTimeUpdates(trip_id) ==
    LET msgs == ServedTrips(Len(served))
    IN  UNION {{msgs[j].stop_time_update[k] : k \in 1..Len(msgs[j].stop_time_update)} :
                  j \in {i \in 1..Len(msgs) : msgs[i].trip_id = trip_id}}

\* C6: the delay of every prediction is an integer: the delay of the served
\* stop-time update, and 0 when that update carries no delay.
C6_DelayIsInteger ==
    pc = "done" =>
        \A p \in Predictions :
            /\ Prediction(p).delay # None
            /\ \E m \in ServedStopTimeUpdates(Prediction(p).trip_id) :
                  /\ m.stop_id = p[1]
                  /\ m.arrival # None
                  /\ m.arrival[1].time = Some(Prediction(p).arrival_time)
                  /\ Prediction(p).delay
                        = (IF m.arrival[1].delay = None THEN Some(0) ELSE m.arrival[1].delay)

C6_Witness ==
    /\ pc = "done"
    /\ \E p \in Predictions :
          /\ Prediction(p).delay = Some(0)
          /\ \A m \in ServedStopTimeUpdates(Prediction(p).trip_id) :
                m.arrival # None /\ m.arrival[1].delay = None

TimesOf(S) == {InputUpdate(u).arrival_time[1] : u \in S}
AtTime(S, time) == {u \in S : InputUpdate(u).arrival_time[1] = time}
PredictedAt(s, r, time) == {p \in OfRoute(s, r) : Prediction(p).arrival_time = time}

\* the predictions of route r at station s are n of the qualifying stop updates
\* of r at s, and no qualifying update left out is earlier than one kept
EarliestOfRoute(s, r, n) ==
    /\ Cardinality(OfRoute(s, r)) = n
    /\ \A p \in OfRoute(s, r) : Prediction(p).arrival_time \in TimesOf(Qualifying(s, r))
    /\ \A time \in TimesOf(Qualifying(s, r)) :
          /\ Cardinality(PredictedAt(s, r, time)) <= Cardinality(AtTime(Qualifying(s, r), time))
          /\ Cardinality(PredictedAt(s, r, time)) < Cardinality(AtTime(Qualifying(s, r), time))
                => \A p \in OfRoute(s, r) : Prediction(p).arrival_time <= time

\* C9 (as stated): for every station, route and max_trains_per_route, the
\* predictions of the route are exactly the min(max_trains_per_route, n)
\* earliest of its n qualifying stop updates at the station.
C9_EarliestPerRoute_AnyCap ==
    pc = "done" =>
        \A s \in Stops, r \in Routes :
            EarliestOfRoute(s, r, Min(max_trains_per_route, Cardinality(Qualifying(s, r))))

\* C9 (amended): the same for every max_trains_per_route >= 0, whatever the
\* other routes have at the station.
C9_EarliestPerRoute ==
    (pc = "done" /\ max_trains_per_route >= 0) =>
        \A s \in Stops, r \in Routes :
            EarliestOfRoute(s, r, Min(max_trains_per_route, Cardinality(Qualifying(s, r))))

C9_Witness ==
    /\ pc = "done"
    /\ max_trains_per_route >= 1
    /\ \E s \in Stops, r, q \in Routes :
          /\ r # q
          /\ Cardinality(Qualifying(s, r)) > max_trains_per_route
          /\ Cardinality(OfRoute(s, r)) = max_trains_per_route
          /\ Cardinality(Qualifying(s, q)) >= 1
          /\ Cardinality(OfRoute(s, q)) >= 1
          /\ \E u \in Qualifying(s, r), v \in Qualifying(s, q) :
                InputUpdate(u).arrival_time[1] < InputUpdate(v).arrival_time[1]

====
